---- MODULE Spec2Model ----
(***************************************************************************)
(* ManagedServiceHost (src/service_host/managed_service_host.py): a        *)
(* controller that asks a manager process to start / stop a host           *)
(* subprocess, adopts the connection config the manager reports and        *)
(* registers an atexit hook that stops the host when the process exits.    *)
(*                                                                         *)
(* Every method is split at its suspension points (the manager round trip  *)
(* and time.sleep), so that the manager and the asynchronous termination   *)
(* of the host interleave with the controller.                             *)
(***************************************************************************)
EXTENDS Integers, Sequences, FiniteSets, TLC

\* ---------------------------------------------------------------- bounds
MaxPort == 2          \* ports the OS may allocate to a host: 1..MaxPort
MaxMembers == 2       \* members of the JSON object a host prints
MaxTimeout == 2       \* positive timeouts (milliseconds) tried: 1..MaxTimeout
MaxStarts == 2        \* start() invocations per run (each may add a hook)
MaxSharedStarts == 2  \* start() invocations of two concurrent threads together

\* ------------------------------------------------------------- constants
None == -1            \* Python's None, the default of stop(timeout=None)
OK == 200             \* the only status start() and stop() accept
SILENT == 0           \* conf.Verbosity levels, in increasing order
PROCESS_START == 1
PROCESS_STOP == 2

Controllers == {"host1", "host2"}  \* two controllers made from one manager
Solo == {"host1"}                  \* the controller a single-handle program uses
ClsName == "ManagedServiceHost"               \* type(self).__name__
ManagerConfigFile == "host.config.js"         \* manager.config_file
StartFmt == "Attempted to start a {cls_name}: {res} - {res_text}"
StopFmt == "Attempted to stop {name}. Response: {res_code}: {res_text}"

Statuses == {OK, 404, 500}
Bodies == {"boom", "oops"}                    \* bodies of non-200 responses
Ports == 1..MaxPort
Timeouts == {None, 0} \cup (1..MaxTimeout)    \* arguments of stop()
VerbosityLevels == {SILENT, PROCESS_START, PROCESS_STOP}

\* ------------------------------------------------------------------ JSON
\* A JSON object text is the sequence of its members <<key, value>> in the
\* order they are written; json.loads builds the dict member by member, a
\* repeated key keeping its last value.
Members == ({"port"} \X Ports) \cup ({"address"} \X {"127.0.0.1"})
JsonTexts == UNION {[1..n -> Members] : n \in 1..MaxMembers}
EmptyDict == [k \in {} |-> 0]

RECURSIVE json_loads(_)
json_loads(text) ==
    IF text = <<>> THEN EmptyDict
    ELSE LET d == json_loads(SubSeq(text, 1, Len(text) - 1))
             m == text[Len(text)]
         IN  [k \in DOMAIN d \cup {m[1]} |-> IF k = m[1] THEN m[2] ELSE d[k]]

\* manager.get_config(): the static config read from the config file
ManagerConfig == [address |-> "127.0.0.1", port |-> 0, debug |-> "off"]

\* ------------------------------------------------------------- variables
VARIABLES
    config,        \* config[c]: self.config, the connection config (a dict)
    config_file,   \* config_file[c]: self.config_file, the config identifier
    pc,            \* pc[c]: where the controller's current call stands
    call,          \* call[c]: the top-level call in progress, or the last one
    trace,         \* trace[c]: what the current top-level call has done so far
    result,        \* result[c]: how the last finished call ended
    req,           \* req[c]: the request of c the manager has not yet answered
    res,           \* res[c]: the response c has not yet read
    hooks,         \* the atexit registry, in registration order
    phase,         \* "running", "exiting" (hooks being run) or "exited"
    starts,        \* starts[c]: start() invocations of c so far
    registered,    \* registered[c]: exit hooks c has registered so far
    exitLog,       \* the hook invocations of the exit phase, in order
    hostRunning,   \* manager: the host subprocess is alive
    hostOutput,    \* manager: the JSON text the host printed when spawned
    pendingStop,   \* manager: a termination of the host is scheduled
    VERBOSITY,                             \* settings.VERBOSITY
    ON_EXIT_MANAGED_HOSTS_STOP_TIMEOUT,    \* settings.ON_EXIT_...
    lastStart      \* lastStart[c]: the last 200 response a start() of c read

vars == <<config, config_file, pc, call, trace, result, req, res, hooks,
          phase, starts, registered, exitLog, hostRunning, hostOutput, pendingStop, VERBOSITY,
          ON_EXIT_MANAGED_HOSTS_STOP_TIMEOUT, lastStart>>

mgrVars == <<hostRunning, hostOutput, pendingStop>>
settings == <<VERBOSITY, ON_EXIT_MANAGED_HOSTS_STOP_TIMEOUT>>

\* ----------------------------------------------------- records and events
NoReq == [action |-> "none", params |-> EmptyDict]
NoRes == [status_code |-> 0, text |-> "", started |-> FALSE, output |-> <<>>]
NoCall == [op |-> "none", timeout |-> None]
NoResult == [kind |-> "none", op |-> "none", msg |-> EmptyDict]
Returned(op) == [kind |-> "returned", op |-> op, msg |-> EmptyDict]
UnexpectedResponse(op, msg) == [kind |-> "UnexpectedResponse", op |-> op, msg |-> msg]

Ev(e, a) == [ev |-> e, arg |-> a]

\* ServiceHost.get_name(): the display name of the controller
GetName(c) == CASE c = "host1" -> "host1 display name"
                [] c = "host2" -> "host2 display name"

\* ServiceHost.is_running(): whether the host subprocess answers
is_running(c) == hostRunning

Init ==
    /\ config = [c \in Controllers |-> ManagerConfig]
    /\ config_file = [c \in Controllers |-> ManagerConfigFile]
    /\ pc = [c \in Controllers |-> "idle"]
    /\ call = [c \in Controllers |-> NoCall]
    /\ trace = [c \in Controllers |-> <<>>]
    /\ result = [c \in Controllers |-> NoResult]
    /\ req = [c \in Controllers |-> NoReq]
    /\ res = [c \in Controllers |-> NoRes]
    /\ hooks = <<>>
    /\ phase = "running"
    /\ starts = [c \in Controllers |-> 0]
    /\ registered = [c \in Controllers |-> 0]
    /\ exitLog = <<>>
    /\ hostRunning = FALSE
    /\ hostOutput = <<>>
    /\ pendingStop = FALSE
    /\ VERBOSITY \in VerbosityLevels
    /\ ON_EXIT_MANAGED_HOSTS_STOP_TIMEOUT \in 1..MaxTimeout
    /\ lastStart = [c \in Controllers |-> NoRes]

\* ================================================================ start()
\* line 36: the params of the start request
StartParams(c) == [config |-> config_file[c]]

\* a start() without the status check
StartFails_Never(r) == FALSE

\* a start() that only rejects server errors
StartFails_Only5xx(r) == r.status_code >= 500

\* line 38: whether start() rejects the response
StartFails(r) == r.status_code /= OK

\* a start() whose message leaves out the response body
StartErrorMessage_NoBody(c, r) ==
    [fmt |-> StartFmt, cls_name |-> ClsName,
     res |-> [cls |-> "Response", status_code |-> r.status_code],
     res_text |-> ""]

\* lines 39-45: the message of the UnexpectedResponse start() raises; {res}
\* formats the response object itself, which shows as <Response [status]>
StartErrorMessage(c, r) ==
    [fmt |-> StartFmt, cls_name |-> ClsName,
     res |-> [cls |-> "Response", status_code |-> r.status_code],
     res_text |-> r.text]

\* a start() that updates the old dict with the decoded one
AdoptedConfig_Update(old, r) ==
    LET new == json_loads(r.output)
    IN  [k \in DOMAIN old \cup DOMAIN new |->
            IF k \in DOMAIN new THEN new[k] ELSE old[k]]

\* a start() that adopts the output only when the manager spawned a host
AdoptedConfig_IfStarted(old, r) ==
    IF r.started THEN json_loads(r.output) ELSE old

\* a start() that keeps the config an earlier start() adopted
AdoptedConfig_KeepFirst(old, r) ==
    IF old = ManagerConfig THEN json_loads(r.output) ELSE old

\* lines 47-49: the config start() adopts from a 200 response
AdoptedConfig(old, r) == json_loads(r.output)

\* a start() that announces every host the manager reports
StartNotifies_Reused(r) == VERBOSITY >= PROCESS_START

\* line 51: whether start() prints its notification
StartNotifies(r) == r.started /\ VERBOSITY >= PROCESS_START

\* a start() that registers self.stop without the timeout
ExitHook_NoTimeout(c) == [host |-> c, timeout |-> None]

\* lines 59-62: the atexit entry start() registers, self.stop with timeout
ExitHook(c) == [host |-> c, timeout |-> ON_EXIT_MANAGED_HOSTS_STOP_TIMEOUT]

\* a registry that keeps one entry per function and arguments
atexit_register_Once(hs, h) ==
    IF \E i \in DOMAIN hs : hs[i] = h THEN hs ELSE Append(hs, h)

\* line 59: atexit.register adds the entry to the registry hs, whatever the
\* registry already holds
atexit_register(hs, h) == Append(hs, h)

\* line 36, reached from start() or from restart() (line 110): send the
\* start request and block on the manager; tr is the trace so far
SendStart(c, tr) ==
    LET R == [action |-> "start", params |-> StartParams(c)]
    IN  /\ req' = [req EXCEPT ![c] = R]
        /\ trace' = [trace EXCEPT ![c] = Append(tr, Ev("request", R))]
        /\ pc' = [pc EXCEPT ![c] = "start_wait"]
        /\ starts' = [starts EXCEPT ![c] = @ + 1]

\* a start() that asks the manager only when the host is not running
Start_Send_SkipRunning(c) ==
    /\ phase = "running"
    /\ pc[c] = "idle"
    /\ starts[c] < MaxStarts
    /\ call' = [call EXCEPT ![c] = [op |-> "start", timeout |-> None]]
    /\ IF is_running(c)
       THEN /\ trace' = [trace EXCEPT ![c] = <<Ev("return", "start")>>]
            /\ result' = [result EXCEPT ![c] = Returned("start")]
            /\ starts' = [starts EXCEPT ![c] = @ + 1]
            /\ UNCHANGED <<pc, req>>
       ELSE /\ result' = [result EXCEPT ![c] = NoResult]
            /\ SendStart(c, <<>>)
    /\ UNCHANGED <<config, config_file, res, hooks, phase, registered,
                   exitLog, mgrVars, settings, lastStart>>

\* a caller invokes start() (line 36)
Start_Send(c) ==
    /\ phase = "running"
    /\ pc[c] = "idle"
    /\ starts[c] < MaxStarts
    /\ call' = [call EXCEPT ![c] = [op |-> "start", timeout |-> None]]
    /\ result' = [result EXCEPT ![c] = NoResult]
    /\ SendStart(c, <<>>)
    /\ UNCHANGED <<config, config_file, res, hooks, phase, registered,
                   exitLog, mgrVars, settings, lastStart>>

\* a start() that registers its exit hook before it checks the status
Start_Recv_RegistersFirst(c) ==
    /\ pc[c] = "start_wait"
    /\ res[c].status_code /= 0
    /\ LET r == res[c]
           t1 == Append(trace[c], Ev("response", r))
       IN  IF StartFails(r)
           THEN LET msg == StartErrorMessage(c, r)
                IN  /\ trace' = [trace EXCEPT ![c] =
                                    t1 \o <<Ev("register", ExitHook(c)), Ev("raise", msg)>>]
                    /\ result' = [result EXCEPT ![c] =
                                     UnexpectedResponse(call[c].op, msg)]
                    /\ pc' = [pc EXCEPT ![c] = "idle"]
                    /\ hooks' = atexit_register(hooks, ExitHook(c))
                    /\ UNCHANGED <<config, registered, lastStart>>
           ELSE LET cfg == AdoptedConfig(config[c], r)
                    t2 == Append(t1, Ev("config", cfg))
                    t3 == IF StartNotifies(r)
                          THEN Append(t2, Ev("print", <<"Started", GetName(c)>>))
                          ELSE t2
                    t4 == Append(t3, Ev("register", ExitHook(c)))
                IN  /\ config' = [config EXCEPT ![c] = cfg]
                    /\ lastStart' = [lastStart EXCEPT ![c] = r]
                    /\ hooks' = atexit_register(hooks, ExitHook(c))
                    /\ registered' = [registered EXCEPT ![c] = @ + 1]
                    /\ IF call[c].op = "restart"
                       THEN /\ trace' = [trace EXCEPT ![c] = t4]
                            /\ pc' = [pc EXCEPT ![c] = "restart_connect"]
                            /\ UNCHANGED result
                       ELSE /\ trace' = [trace EXCEPT ![c] =
                                           Append(t4, Ev("return", "start"))]
                            /\ pc' = [pc EXCEPT ![c] = "idle"]
                            /\ result' = [result EXCEPT ![c] = Returned("start")]
    /\ res' = [res EXCEPT ![c] = NoRes]
    /\ UNCHANGED <<config_file, call, req, phase, starts, exitLog, mgrVars,
                   settings>>

\* lines 38-62: the response has arrived
Start_Recv(c) ==
    /\ pc[c] = "start_wait"
    /\ res[c].status_code /= 0
    /\ LET r == res[c]
           t1 == Append(trace[c], Ev("response", r))
       IN  IF StartFails(r)
           THEN LET msg == StartErrorMessage(c, r)
                IN  /\ trace' = [trace EXCEPT ![c] = Append(t1, Ev("raise", msg))]
                    /\ result' = [result EXCEPT ![c] =
                                     UnexpectedResponse(call[c].op, msg)]
                    /\ pc' = [pc EXCEPT ![c] = "idle"]
                    /\ UNCHANGED <<config, hooks, registered, lastStart>>
           ELSE LET cfg == AdoptedConfig(config[c], r)
                    t2 == Append(t1, Ev("config", cfg))
                    t3 == IF StartNotifies(r)
                          THEN Append(t2, Ev("print", <<"Started", GetName(c)>>))
                          ELSE t2
                    t4 == Append(t3, Ev("register", ExitHook(c)))
                IN  /\ config' = [config EXCEPT ![c] = cfg]
                    /\ lastStart' = [lastStart EXCEPT ![c] = r]
                    /\ hooks' = atexit_register(hooks, ExitHook(c))
                    /\ registered' = [registered EXCEPT ![c] = @ + 1]
                    /\ IF call[c].op = "restart"
                       THEN /\ trace' = [trace EXCEPT ![c] = t4]
                            /\ pc' = [pc EXCEPT ![c] = "restart_connect"]
                            /\ UNCHANGED result
                       ELSE /\ trace' = [trace EXCEPT ![c] =
                                           Append(t4, Ev("return", "start"))]
                            /\ pc' = [pc EXCEPT ![c] = "idle"]
                            /\ result' = [result EXCEPT ![c] = Returned("start")]
    /\ res' = [res EXCEPT ![c] = NoRes]
    /\ UNCHANGED <<config_file, call, req, phase, starts, exitLog, mgrVars,
                   settings>>

\* ================================================================ manager
\* The manager process (external): it answers one request at a time.
ErrorResponses ==
    {[status_code |-> s, text |-> b, started |-> FALSE, output |-> <<>>] :
        s \in Statuses \ {OK}, b \in Bodies}

Manager_Start(c) ==
    /\ req[c].action = "start"
    /\ req' = [req EXCEPT ![c] = NoReq]
    /\ \/ \E e \in ErrorResponses :
             /\ res' = [res EXCEPT ![c] = e]
             /\ UNCHANGED mgrVars
       \/ /\ hostRunning
          /\ res' = [res EXCEPT ![c] = [status_code |-> OK, text |-> "",
                         started |-> FALSE, output |-> hostOutput]]
          /\ UNCHANGED mgrVars
       \/ /\ ~hostRunning
          /\ \E out \in JsonTexts :
                /\ hostOutput' = out
                /\ res' = [res EXCEPT ![c] = [status_code |-> OK, text |-> "",
                               started |-> TRUE, output |-> out]]
          /\ hostRunning' = TRUE
          /\ pendingStop' = FALSE
    /\ UNCHANGED <<config, config_file, pc, call, trace, result, hooks, phase,
                   starts, registered, exitLog, settings, lastStart>>

Manager_Stop(c) ==
    /\ req[c].action = "stop"
    /\ req' = [req EXCEPT ![c] = NoReq]
    /\ \/ \E e \in ErrorResponses :
             /\ res' = [res EXCEPT ![c] = e]
             /\ UNCHANGED mgrVars
       \/ /\ res' = [res EXCEPT ![c] = [status_code |-> OK, text |-> "",
                         started |-> FALSE, output |-> <<>>]]
          /\ pendingStop' = hostRunning
          /\ UNCHANGED <<hostRunning, hostOutput>>
    /\ UNCHANGED <<config, config_file, pc, call, trace, result, hooks, phase,
                   starts, registered, exitLog, settings, lastStart>>

\* the host subprocess ends some time after the manager scheduled its stop
Host_Terminate ==
    /\ hostRunning
    /\ pendingStop
    /\ hostRunning' = FALSE
    /\ pendingStop' = FALSE
    /\ hostOutput' = <<>>
    /\ UNCHANGED <<config, config_file, pc, call, trace, result, req, res,
                   hooks, phase, starts, registered, exitLog, settings, lastStart>>

\* ================================================================= stop()
\* lines 78 and 92: Python's truth value of the timeout argument
Truthy(timeout) == timeout /= None /\ timeout /= 0

\* a stop() without the is_running() check
StopSkips_Never(c) == FALSE

\* line 73: whether stop() returns at once
StopSkips(c) == ~is_running(c)

\* a stop() that only rejects server errors
StopFails_Only5xx(r) == r.status_code >= 500

\* line 83: whether stop() rejects the response
StopFails(r) == r.status_code /= OK

\* a stop() that forwards the timeout in seconds
StopParams_Seconds(c, timeout) ==
    IF Truthy(timeout)
    THEN [config |-> config_file[c], timeout |-> timeout \div 1000]
    ELSE [config |-> config_file[c]]

\* lines 76-79: the params of the stop request
StopParams(c, timeout) ==
    IF Truthy(timeout)
    THEN [config |-> config_file[c], timeout |-> timeout]
    ELSE [config |-> config_file[c]]

\* lines 84-90: the message of the UnexpectedResponse stop() raises
StopErrorMessage(c, r) ==
    [fmt |-> StopFmt, name |-> GetName(c), res_code |-> r.status_code,
     res_text |-> r.text]

\* a stop() that sleeps only when given a timeout
StopSleeps_Inverted(timeout) == Truthy(timeout)

\* line 92: whether stop() sleeps after a 200 response
StopSleeps(timeout) == ~Truthy(timeout)

\* lines 97-106: what stop() prints before it returns
StopNotice(c, timeout) ==
    IF VERBOSITY >= PROCESS_STOP
    THEN IF Truthy(timeout)
         THEN <<Ev("print", <<"will stop in", GetName(c),
                               [num |-> timeout, den |-> 1000]>>)>>
         ELSE <<Ev("print", <<"Stopped", GetName(c)>>)>>
    ELSE <<>>

\* an exit hook that goes on to start() as restart() does
FinishStop_ExitRestarts(c, op, tr) ==
    IF op \in {"restart", "exit_stop"}
    THEN /\ SendStart(c, tr)
         /\ result' = [result EXCEPT ![c] = NoResult]
    ELSE /\ trace' = [trace EXCEPT ![c] = Append(tr, Ev("return", "stop"))]
         /\ pc' = [pc EXCEPT ![c] = "idle"]
         /\ result' = [result EXCEPT ![c] = Returned(op)]
         /\ UNCHANGED <<req, starts>>

\* a restart() that ends after its stop()
FinishStop_NoStart(c, op, tr) ==
    /\ trace' = [trace EXCEPT ![c] = Append(tr, Ev("return", op))]
    /\ pc' = [pc EXCEPT ![c] = "idle"]
    /\ result' = [result EXCEPT ![c] = Returned(op)]
    /\ UNCHANGED <<req, starts>>

\* stop() returns normally, tr being the trace up to here: its caller goes
\* on, which for restart() is line 110, start()
FinishStop(c, op, tr) ==
    IF op = "restart"
    THEN /\ SendStart(c, tr)
         /\ result' = [result EXCEPT ![c] = NoResult]
    ELSE /\ trace' = [trace EXCEPT ![c] = Append(tr, Ev("return", "stop"))]
         /\ pc' = [pc EXCEPT ![c] = "idle"]
         /\ result' = [result EXCEPT ![c] = Returned(op)]
         /\ UNCHANGED <<req, starts>>

\* lines 73-81: stop(timeout) is entered by the top-level call op
EnterStop(c, op, timeout) ==
    /\ call' = [call EXCEPT ![c] = [op |-> op, timeout |-> timeout]]
    /\ IF StopSkips(c)
       THEN FinishStop(c, op, <<>>)
       ELSE LET R == [action |-> "stop", params |-> StopParams(c, timeout)]
            IN  /\ req' = [req EXCEPT ![c] = R]
                /\ trace' = [trace EXCEPT ![c] = <<Ev("request", R)>>]
                /\ pc' = [pc EXCEPT ![c] = "stop_wait"]
                /\ result' = [result EXCEPT ![c] = NoResult]
                /\ UNCHANGED starts

\* a caller invokes stop(timeout)
Stop_Enter(c, timeout) ==
    /\ phase = "running"
    /\ pc[c] = "idle"
    /\ EnterStop(c, "stop", timeout)
    /\ UNCHANGED <<config, config_file, res, hooks, phase, registered,
                   exitLog, mgrVars, settings, lastStart>>

\* lines 83-92: the response to the stop request has arrived
Stop_Recv(c) ==
    /\ pc[c] = "stop_wait"
    /\ res[c].status_code /= 0
    /\ LET r == res[c]
           t1 == Append(trace[c], Ev("response", r))
       IN  IF StopFails(r)
           THEN LET msg == StopErrorMessage(c, r)
                IN  /\ trace' = [trace EXCEPT ![c] = Append(t1, Ev("raise", msg))]
                    /\ result' = [result EXCEPT ![c] =
                                     UnexpectedResponse(call[c].op, msg)]
                    /\ pc' = [pc EXCEPT ![c] = "idle"]
                    /\ UNCHANGED <<req, starts>>
           ELSE IF StopSleeps(call[c].timeout)
                THEN /\ trace' = [trace EXCEPT ![c] = t1]
                     /\ pc' = [pc EXCEPT ![c] = "stop_sleep"]
                     /\ UNCHANGED <<req, starts, result>>
                ELSE FinishStop(c, call[c].op,
                                t1 \o StopNotice(c, call[c].timeout))
    /\ res' = [res EXCEPT ![c] = NoRes]
    /\ UNCHANGED <<config, config_file, call, hooks, phase, registered,
                   exitLog, mgrVars, settings, lastStart>>

\* a stop() that waits until the host no longer answers
Stop_Wake_WhenStopped(c) ==
    /\ pc[c] = "stop_sleep"
    /\ ~is_running(c)
    /\ FinishStop(c, call[c].op,
                  Append(trace[c], Ev("sleep", 50)) \o StopNotice(c, call[c].timeout))
    /\ UNCHANGED <<config, config_file, call, res, hooks, phase, registered,
                   exitLog, mgrVars, settings, lastStart>>

\* lines 95-106: time.sleep(0.05) is over
Stop_Wake(c) ==
    /\ pc[c] = "stop_sleep"
    /\ FinishStop(c, call[c].op,
                  Append(trace[c], Ev("sleep", 50)) \o StopNotice(c, call[c].timeout))
    /\ UNCHANGED <<config, config_file, call, res, hooks, phase, registered,
                   exitLog, mgrVars, settings, lastStart>>

\* ============================================================== restart()
\* line 109: the timeout restart() passes to stop(), the default
RestartStopTimeout == None

\* a caller invokes restart(): line 109, stop() without a timeout
Restart_Enter(c) ==
    /\ phase = "running"
    /\ pc[c] = "idle"
    /\ starts[c] < MaxStarts
    /\ EnterStop(c, "restart", RestartStopTimeout)
    /\ UNCHANGED <<config, config_file, res, hooks, phase, registered,
                   exitLog, mgrVars, settings, lastStart>>

\* line 111: connect(), after start() returned
Restart_Connect(c) ==
    /\ pc[c] = "restart_connect"
    /\ trace' = [trace EXCEPT ![c] =
                    trace[c] \o <<Ev("connect", config[c]), Ev("return", "restart")>>]
    /\ pc' = [pc EXCEPT ![c] = "idle"]
    /\ result' = [result EXCEPT ![c] = Returned("restart")]
    /\ UNCHANGED <<config, config_file, call, req, res, hooks, phase, starts,
                   registered, exitLog, mgrVars, settings, lastStart>>

\* ========================================================== process exit
AllIdle == \A c \in Controllers : pc[c] = "idle"

\* the interpreter begins its normal termination
Exit_Begin ==
    /\ phase = "running"
    /\ AllIdle
    /\ phase' = "exiting"
    /\ UNCHANGED <<config, config_file, pc, call, trace, result, req, res,
                   hooks, starts, registered, exitLog, mgrVars, settings, lastStart>>

\* atexit runs the registered functions last in, first out; an exception of
\* one is reported and the next is run. Each entry is self.stop(timeout=...)
\* (lines 59-62)
Exit_RunHook ==
    /\ phase = "exiting"
    /\ AllIdle
    /\ hooks /= <<>>
    /\ LET h == hooks[Len(hooks)]
       IN  /\ hooks' = SubSeq(hooks, 1, Len(hooks) - 1)
           /\ EnterStop(h.host, "exit_stop", h.timeout)
           /\ exitLog' = Append(exitLog,
                  [host |-> h.host, timeout |-> h.timeout,
                   running |-> is_running(h.host), req |-> req'[h.host]])
    /\ UNCHANGED <<config, config_file, res, phase, registered, mgrVars,
                   settings, lastStart>>

\* every registered function has run
Exit_Done ==
    /\ phase = "exiting"
    /\ AllIdle
    /\ hooks = <<>>
    /\ phase' = "exited"
    /\ UNCHANGED <<config, config_file, pc, call, trace, result, req, res,
                   hooks, starts, registered, exitLog, mgrVars, settings, lastStart>>

\* ========================================================= specification
Next ==
    \/ \E c \in Solo : Start_Send(c)
    \/ \E c \in Solo : Start_Recv(c)
    \/ \E c \in Solo, t \in Timeouts : Stop_Enter(c, t)
    \/ \E c \in Solo : Stop_Recv(c)
    \/ \E c \in Solo : Stop_Wake(c)
    \/ \E c \in Solo : Restart_Enter(c)
    \/ \E c \in Solo : Restart_Connect(c)
    \/ \E c \in Solo : Manager_Start(c)
    \/ \E c \in Solo : Manager_Stop(c)
    \/ Host_Terminate
    \/ Exit_Begin
    \/ Exit_RunHook
    \/ Exit_Done

Spec == Init /\ [][Next]_vars

\* Two threads of one program, each with its own controller for the same
\* config file, start and stop the host through the shared manager.
NextShared ==
    \/ \E c \in Controllers :
          starts["host1"] + starts["host2"] < MaxSharedStarts /\ Start_Send(c)
    \/ \E c \in Controllers : Start_Recv(c)
    \/ \E c \in Solo : Stop_Enter(c, None)
    \/ \E c \in Solo : Stop_Recv(c)
    \/ \E c \in Solo : Stop_Wake(c)
    \/ \E c \in Controllers : Manager_Start(c)
    \/ \E c \in Solo : Manager_Stop(c)
    \/ Host_Terminate

InitShared ==
    /\ Init
    /\ VERBOSITY = PROCESS_STOP
    /\ ON_EXIT_MANAGED_HOSTS_STOP_TIMEOUT = 1

SpecShared == InitShared /\ [][NextShared]_vars

TypeOK ==
    /\ \A c \in Controllers :
          /\ pc[c] \in {"idle", "start_wait", "stop_wait", "stop_sleep",
                        "restart_connect"}
          /\ req[c].action \in {"none", "start", "stop"}
          /\ res[c].status_code \in Statuses \cup {0}
          /\ starts[c] \in 0..MaxStarts
          /\ registered[c] \in 0..starts[c]
    /\ phase \in {"running", "exiting", "exited"}
    /\ Len(hooks) <= MaxStarts * Cardinality(Controllers)
    /\ hostRunning \in BOOLEAN
    /\ pendingStop \in BOOLEAN

\* ================================================================ claims
\* the kinds of the events of a trace, in order
Evs(tr) == [i \in DOMAIN tr |-> tr[i].ev]

\* d is the dict a JSON object text denotes: its keys are the keys written,
\* each with the value of its last member
Decodes(text, d) ==
    /\ DOMAIN d = {text[i][1] : i \in DOMAIN text}
    /\ \A i \in DOMAIN text :
          (\A j \in DOMAIN text : j > i => text[j][1] /= text[i][1])
              => d[text[i][1]] = text[i][2]

\* C1: when start() reads a response with status 200 it returns normally and
\* the connection config is the dict its 'output' text denotes, with no key
\* of the earlier config kept, whatever 'started' says.
C1_StartAdoptsOutput ==
    [][\A c \in Controllers :
         (pc[c] = "start_wait" /\ res[c].status_code = OK
             /\ pc'[c] /= "start_wait")
         => /\ Decodes(res[c].output, config'[c])
            /\ result'[c].kind /= "UnexpectedResponse"
            /\ call[c].op = "start"
                 => result'[c] = Returned("start") /\ pc'[c] = "idle"
            /\ call[c].op = "restart" => pc'[c] = "restart_connect"]_vars

\* a second start() reused the running host (started false) and replaced a
\* config that had keys the output lacks
C1_Witness ==
    \E c \in Controllers :
        /\ result[c] = Returned("start")
        /\ starts[c] = 2
        /\ trace[c][2].ev = "response"
        /\ trace[c][2].arg.status_code = OK
        /\ ~trace[c][2].arg.started
        /\ Decodes(trace[c][2].arg.output, config[c])
        /\ DOMAIN config[c] = {"port"}

\* C2: when start() reads a response whose status is not 200 it raises
\* UnexpectedResponse and the connection config is what it was.
C2_StartFailureKeepsConfig ==
    [][\A c \in Controllers :
         (pc[c] = "start_wait" /\ res[c].status_code \notin {0, OK}
             /\ pc'[c] /= "start_wait")
         => /\ result'[c].kind = "UnexpectedResponse"
            /\ result'[c].msg.fmt = StartFmt
            /\ config'[c] = config[c]
            /\ pc'[c] = "idle"]_vars

\* start() failed with 404 after an earlier start() had adopted a config
C2_Witness ==
    \E c \in Controllers :
        /\ result[c].kind = "UnexpectedResponse"
        /\ result[c].msg.fmt = StartFmt
        /\ result[c].msg.res.status_code = 404
        /\ registered[c] = 1
        /\ config[c] /= ManagerConfig

\* C3: stop(timeout), called or run as an exit hook while is_running() is
\* false, sends no request, does not sleep, prints nothing, raises nothing
\* and returns, for every timeout.
C3_StopNotRunningNoOp ==
    [][\A c \in Controllers :
         (/\ pc[c] = "idle"
          /\ ~is_running(c)
          /\ call'[c].op \in {"stop", "exit_stop"}
          /\ <<call[c], trace[c], result[c]>> /= <<call'[c], trace'[c], result'[c]>>)
         => /\ req'[c] = NoReq
            /\ pc'[c] = "idle"
            /\ Evs(trace'[c]) = <<"return">>
            /\ result'[c] = Returned(call'[c].op)
            /\ UNCHANGED <<res, mgrVars, config>>]_vars

\* a verbose controller whose host was started and has terminated is told
\* to stop with a positive timeout
C3_Witness ==
    \E c \in Controllers :
        /\ call[c] = [op |-> "stop", timeout |-> MaxTimeout]
        /\ result[c] = Returned("stop")
        /\ Evs(trace[c]) = <<"return">>
        /\ registered[c] > 0
        /\ ~hostRunning
        /\ VERBOSITY >= PROCESS_STOP

\* the step by which controller c enters a new top-level call
Enters(c) ==
    /\ pc[c] = "idle"
    /\ <<call[c], trace[c], result[c]>> /= <<call'[c], trace'[c], result'[c]>>

\* the trace begins with a stop request: stop() found the host running
SentStop(c) ==
    /\ trace[c] /= <<>>
    /\ trace[c][1].ev = "request"
    /\ trace[c][1].arg.action = "stop"

\* the stop request was answered with status 200
StopAcked(c) ==
    /\ SentStop(c)
    /\ Len(trace[c]) >= 2
    /\ trace[c][2].arg.status_code = OK

\* the requests in a trace whose action is a
Requests(tr, a) ==
    {i \in DOMAIN tr : tr[i].ev = "request" /\ tr[i].arg.action = a}

\* C4: stop(timeout) with a positive timeout on a running host sends one stop
\* request whose params are the config identifier and that timeout, and
\* after a 200 response it returns without sleeping.
C4_TimedStopForwardsTimeout ==
    /\ [][\A c \in Controllers :
            (/\ Enters(c)
             /\ is_running(c)
             /\ call'[c].op \in {"stop", "exit_stop"}
             /\ call'[c].timeout > 0)
            => /\ req'[c].action = "stop"
               /\ DOMAIN req'[c].params = {"config", "timeout"}
               /\ req'[c].params.config = config_file[c]
               /\ req'[c].params.timeout = call'[c].timeout
               /\ Evs(trace'[c]) = <<"request">>]_vars
    /\ [](\A c \in Controllers :
            (call[c].op \in {"stop", "exit_stop"} /\ call[c].timeout > 0)
            => /\ Cardinality(Requests(trace[c], "stop")) <= 1
               /\ Requests(trace[c], "start") = {}
               /\ pc[c] /= "stop_sleep"
               /\ \A i \in DOMAIN trace[c] : trace[c][i].ev /= "sleep"
               /\ StopAcked(c)
                    => /\ pc[c] = "idle"
                       /\ result[c] = Returned(call[c].op)
                       /\ trace[c][Len(trace[c])].ev = "return")

\* stop(MaxTimeout) on a running host was acknowledged and has returned
C4_Witness ==
    \E c \in Controllers :
        /\ call[c] = [op |-> "stop", timeout |-> MaxTimeout]
        /\ StopAcked(c)
        /\ trace[c][1].arg.params.timeout = MaxTimeout
        /\ result[c] = Returned("stop")
        /\ hostRunning

\* C5: stop() with the timeout absent or zero on a running host sends one
\* stop request whose only param is the config identifier, and after a 200
\* response it sleeps before it returns (or before restart() goes on).
C5_UntimedStopSleeps ==
    /\ [][\A c \in Controllers :
            (/\ Enters(c)
             /\ is_running(c)
             /\ call'[c].op \in {"stop", "restart"}
             /\ call'[c].timeout \in {None, 0})
            => /\ req'[c].action = "stop"
               /\ DOMAIN req'[c].params = {"config"}
               /\ req'[c].params.config = config_file[c]
               /\ Evs(trace'[c]) = <<"request">>]_vars
    /\ [](\A c \in Controllers :
            (call[c].op \in {"stop", "restart"} /\ call[c].timeout \in {None, 0})
            => /\ Cardinality(Requests(trace[c], "stop")) <= 1
               /\ StopAcked(c)
                    => /\ Len(trace[c]) = 2 <=> pc[c] = "stop_sleep"
                       /\ Len(trace[c]) > 2 => trace[c][3].ev = "sleep"
                       /\ Cardinality({i \in DOMAIN trace[c] :
                                          trace[c][i].ev = "sleep"}) <= 1
                       /\ result[c] = Returned("stop")
                            => /\ Len(trace[c]) >= 4
                               /\ trace[c][Len(trace[c])].ev = "return")

\* stop(0) on a running host: request, 200, sleep, notification, return
C5_Witness ==
    \E c \in Controllers :
        /\ call[c] = [op |-> "stop", timeout |-> 0]
        /\ StopAcked(c)
        /\ DOMAIN trace[c][1].arg.params = {"config"}
        /\ Evs(trace[c]) = <<"request", "response", "sleep", "print", "return">>
        /\ result[c] = Returned("stop")

\* the calls restart() makes that reach outside the controller
IsCall(e) == e.ev \in {"request", "connect"}
CallKind(e) == IF e.ev = "connect" THEN "connect" ELSE e.arg.action
Calls(tr) == LET cs == SelectSeq(tr, IsCall) IN [i \in DOMAIN cs |-> CallKind(cs[i])]

\* C6: restart() on a running host answered with 200 throughout makes one
\* stop request without timeout, then one start request, then one connect
\* call; if the stop request is answered otherwise, restart() raises and
\* neither a start request nor connect follows.
C6_RestartOrder ==
    \A c \in Controllers :
        (call[c].op = "restart" /\ SentStop(c))
        => /\ DOMAIN trace[c][1].arg.params = {"config"}
           /\ Calls(trace[c]) \in {<<"stop">>, <<"stop", "start">>,
                                    <<"stop", "start", "connect">>}
           /\ result[c] = Returned("restart")
                => Calls(trace[c]) = <<"stop", "start", "connect">>
           /\ (pc[c] = "idle" /\ result[c].kind /= "UnexpectedResponse")
                => result[c] = Returned("restart")
           /\ (Len(trace[c]) >= 2 /\ trace[c][2].arg.status_code /= OK)
                => /\ Calls(trace[c]) = <<"stop">>
                   /\ pc[c] = "idle"
                   /\ req[c] = NoReq
                   /\ result[c].kind = "UnexpectedResponse"
                   /\ result[c].msg.fmt = StopFmt

\* restart() of a running host went through stop, start and connect
C6_Witness ==
    \E c \in Controllers :
        /\ call[c].op = "restart"
        /\ SentStop(c)
        /\ result[c] = Returned("restart")
        /\ Calls(trace[c]) = <<"stop", "start", "connect">>

\* C7: when the stop request is answered with a status other than 200,
\* stop() raises UnexpectedResponse naming get_name(), the status code and
\* the body text, before any sleep or notification, for every timeout.
C7_StopFailureRaises ==
    \A c \in Controllers :
        (/\ SentStop(c)
         /\ Len(trace[c]) >= 2
         /\ trace[c][2].arg.status_code /= OK)
        => /\ Evs(trace[c]) = <<"request", "response", "raise">>
           /\ pc[c] = "idle"
           /\ result[c].kind = "UnexpectedResponse"
           /\ result[c].op = call[c].op
           /\ result[c].msg.fmt = StopFmt
           /\ result[c].msg.name = GetName(c)
           /\ result[c].msg.res_code = trace[c][2].arg.status_code
           /\ result[c].msg.res_text = trace[c][2].arg.text

\* a verbose controller's stop() without timeout was answered 500 "boom"
C7_Witness ==
    \E c \in Controllers :
        /\ call[c] = [op |-> "stop", timeout |-> None]
        /\ SentStop(c)
        /\ VERBOSITY >= PROCESS_STOP
        /\ result[c].kind = "UnexpectedResponse"
        /\ result[c].msg.fmt = StopFmt
        /\ result[c].msg.res_code = 500
        /\ result[c].msg.res_text = "boom"

\* start() has raised: the trace ends with the response and the raise
StartRaised(c) ==
    /\ result[c].kind = "UnexpectedResponse"
    /\ result[c].msg.fmt = StartFmt

\* the name, the status and the body an error message carries
MsgName(m) == IF m.fmt = StopFmt THEN m.name ELSE m.cls_name
MsgStatus(m) == IF m.fmt = StopFmt THEN m.res_code ELSE m.res.status_code
MsgText(m) == m.res_text

ExitCalls(c) == {i \in DOMAIN exitLog : exitLog[i].host = c}
ExitRequests(c) == {i \in ExitCalls(c) : exitLog[i].req.action = "stop"}
CarriesGrace(c, R) ==
    /\ R.action = "stop"
    /\ DOMAIN R.params = {"config", "timeout"}
    /\ R.params.config = config_file[c]
    /\ R.params.timeout = ON_EXIT_MANAGED_HOSTS_STOP_TIMEOUT

\* C9 as stated: once the process has exited, every controller on which
\* start() was called has had a stop request with the exit grace timeout
\* sent for it.
C9_EveryStartedGetsStopRequest ==
    phase = "exited"
    => \A c \in Controllers :
          starts[c] > 0
          => \E i \in ExitCalls(c) : CarriesGrace(c, exitLog[i].req)

\* C9 amended: once the process has exited, stop was called with the exit
\* grace timeout for every controller that had a start() succeed, and each
\* such call sent a stop request carrying that timeout if it found the host
\* running and no request otherwise; a controller none of whose start()
\* calls succeeded got no call.
C9_ExitStopsSucceededStarts ==
    phase = "exited"
    => \A c \in Controllers :
          /\ registered[c] > 0 <=> ExitCalls(c) /= {}
          /\ \A i \in ExitCalls(c) :
                /\ exitLog[i].timeout = ON_EXIT_MANAGED_HOSTS_STOP_TIMEOUT
                /\ exitLog[i].running => CarriesGrace(c, exitLog[i].req)
                /\ ~exitLog[i].running => exitLog[i].req.action = "none"

\* the process exited after a start() that failed and one that succeeded;
\* the hook found the host running and sent the stop request
C9_Witness ==
    /\ phase = "exited"
    /\ \E c \in Controllers :
          /\ starts[c] = 2
          /\ registered[c] = 1
          /\ \E i \in ExitCalls(c) :
                exitLog[i].running /\ CarriesGrace(c, exitLog[i].req)

\* C10 as stated: however many start() calls succeeded, the exit phase sends
\* no more stop requests for the controller than after a single one.
C10_ExitStopAtMostOnce ==
    \A c \in Controllers : Cardinality(ExitRequests(c)) <= 1

\* C10 amended: every successful start() adds one exit hook and nothing
\* removes one but the exit phase, which calls stop once per hook: after n
\* successful start() calls it makes n calls and at most n stop requests.
HooksOf(c) == {i \in DOMAIN hooks : hooks[i].host = c}
C10_OneExitStopPerStart ==
    \A c \in Controllers :
        /\ Cardinality(HooksOf(c)) + Cardinality(ExitCalls(c)) = registered[c]
        /\ phase = "running" => ExitCalls(c) = {}
        /\ phase = "exited" => Cardinality(ExitCalls(c)) = registered[c]
        /\ Cardinality(ExitRequests(c)) <= registered[c]

\* two start() calls succeeded and the exit phase sent two stop requests
C10_Witness ==
    /\ phase = "exited"
    /\ \E c \in Controllers :
          /\ registered[c] = 2
          /\ Cardinality(ExitRequests(c)) = 2

\* C11: the exit phase never sends a start request and never spawns a host;
\* a hook that finds the host not running sends nothing and returns, and a
\* hook raises only when the manager refuses its stop request, however many
\* hooks are registered.
C11_ExitHooksHarmless ==
    /\ [][phase /= "running"
            => /\ starts' = starts
               /\ registered' = registered
               /\ hostRunning' => hostRunning
               /\ \A c \in Controllers :
                     /\ req'[c].action /= "start"
                     /\ (Enters(c) /\ ~is_running(c))
                          => /\ call'[c].op = "exit_stop"
                             /\ req'[c] = NoReq
                             /\ result'[c].kind = "returned"]_vars
    /\ [](\A c \in Controllers :
            call[c].op = "exit_stop"
            => /\ phase /= "running"
               /\ Requests(trace[c], "start") = {}
               /\ result[c].kind = "UnexpectedResponse"
                    => /\ SentStop(c)
                       /\ trace[c][2].arg.status_code /= OK)

\* two hooks ran: the first found the host running and had it stopped, the
\* second found it gone, sent nothing and returned
C11_Witness ==
    /\ phase = "exited"
    /\ Len(exitLog) = 2
    /\ exitLog[1].running /\ exitLog[1].req.action = "stop"
    /\ ~exitLog[2].running /\ exitLog[2].req.action = "none"
    /\ \E c \in Controllers :
          /\ exitLog[2].host = c
          /\ registered[c] = 2
          /\ result[c] = Returned("exit_stop")

\* C12: every start() sends exactly one start request, whether or not the
\* host is running and whatever came before; every stop() sends at most one
\* stop request; a response with a status other than 200 is raised at once
\* and no request follows it in the same call.
C12_OneRequestNoRetry ==
    /\ [][\A c \in Controllers :
            /\ (Enters(c) /\ call'[c].op = "start")
                 => /\ req'[c] = [action |-> "start",
                                   params |-> [config |-> config_file[c]]]
                    /\ pc'[c] = "start_wait"
            /\ starts'[c] /= starts[c]
                 => /\ starts'[c] = starts[c] + 1
                    /\ req[c].action = "none"
                    /\ req'[c].action = "start"]_vars
    /\ [](\A c \in Controllers :
            /\ call[c].op \in {"start", "restart"}
                 => Cardinality(Requests(trace[c], "start"))
                       = IF call[c].op = "start" \/ pc[c] \in {"start_wait", "restart_connect"}
                              \/ result[c] = Returned("restart") \/ StartRaised(c)
                         THEN 1 ELSE 0
            /\ call[c].op \in {"stop", "exit_stop"}
                 => Requests(trace[c], "start") = {}
            /\ call[c].op = "start" => Requests(trace[c], "stop") = {}
            /\ Cardinality(Requests(trace[c], "stop")) <= 1
            /\ \A i \in DOMAIN trace[c] :
                  (trace[c][i].ev = "response" /\ trace[c][i].arg.status_code /= OK)
                  => /\ Len(trace[c]) = i + 1
                     /\ trace[c][i + 1].ev = "raise"
                     /\ result[c].kind = "UnexpectedResponse"
                     /\ pc[c] = "idle"
                     /\ req[c] = NoReq)

\* a second start(), made while the host of the first is running, sent its
\* own request, was refused and raised without another request
C12_Witness ==
    \E c \in Controllers :
        /\ call[c].op = "start"
        /\ registered[c] = 1
        /\ starts[c] = 2
        /\ hostRunning
        /\ Evs(trace[c]) = <<"request", "response", "raise">>
        /\ StartRaised(c)

\* the start request of the trace was answered with a status other than 200
StartRefused(c) ==
    \E i \in Requests(trace[c], "start") :
        /\ Len(trace[c]) > i
        /\ trace[c][i + 1].arg.status_code /= OK

\* C13: when restart() has stopped the host (or found it stopped) and its
\* start request is refused, restart() raises the UnexpectedResponse of
\* start(), connect is not called, the config is the one restart() began
\* with (the config changes only where a trace shows it adopted), and no
\* further request is sent.
C13_RestartStartFailure ==
    /\ [][\A c \in Controllers :
            config'[c] /= config[c]
            => /\ pc[c] = "start_wait"
               /\ \E i \in DOMAIN trace'[c] :
                     /\ i > Len(trace[c])
                     /\ trace'[c][i].ev = "config"
                     /\ trace'[c][i].arg = config'[c]]_vars
    /\ [](\A c \in Controllers :
            (call[c].op = "restart" /\ StartRefused(c))
            => LET n == Len(trace[c])
               IN  /\ pc[c] = "idle"
                   /\ req[c] = NoReq
                   /\ StartRaised(c)
                   /\ result[c].op = "restart"
                   /\ trace[c][n].ev = "raise"
                   /\ trace[c][n].arg = result[c].msg
                   /\ result[c].msg.res.status_code = trace[c][n - 1].arg.status_code
                   /\ result[c].msg.res_text = trace[c][n - 1].arg.text
                   /\ Requests(trace[c], "start") = {n - 2}
                   /\ Cardinality(Requests(trace[c], "stop")) <= 1
                   /\ \A i \in DOMAIN trace[c] :
                         trace[c][i].ev \notin {"config", "register", "connect"})

\* restart() stopped a running host whose config it had adopted, slept, and
\* had its start request refused
C13_Witness ==
    \E c \in Controllers :
        /\ call[c].op = "restart"
        /\ StopAcked(c)
        /\ StartRefused(c)
        /\ Evs(trace[c]) = <<"request", "response", "sleep", "request",
                              "response", "raise">>
        /\ config[c] /= ManagerConfig
        /\ ~hostRunning

\* C14: the config is the one obtained at construction until a start() has
\* read a 200 response, and from then on the dict denoted by the output of
\* the last such response; it changes in no other step (not in stop(), a
\* refused start() or an exit hook), and the config identifier never
\* changes.
C14_ConfigIsLastStartOutput ==
    /\ [](\A c \in Controllers :
            /\ config_file[c] = ManagerConfigFile
            /\ IF lastStart[c].status_code = 0
               THEN config[c] = ManagerConfig /\ registered[c] = 0
               ELSE /\ lastStart[c].status_code = OK
                    /\ Decodes(lastStart[c].output, config[c])
                    /\ registered[c] > 0)
    /\ [][/\ config_file' = config_file
          /\ \A c \in Controllers :
                /\ (config'[c] /= config[c] \/ lastStart'[c] /= lastStart[c])
                     => /\ pc[c] = "start_wait"
                        /\ res[c].status_code = OK
                /\ (pc[c] = "start_wait" /\ res[c].status_code = OK
                        /\ pc'[c] /= "start_wait")
                     => lastStart'[c] = res[c]
                /\ (call[c].op \in {"stop", "exit_stop"} \/ phase /= "running")
                     => config'[c] = config[c]]_vars

\* after two adopted configs the exit hooks ran, one of them refused by the
\* manager, and the config is still the output of the second start()
C14_Witness ==
    /\ phase = "exited"
    /\ \E c \in Controllers :
          /\ registered[c] = 2
          /\ result[c].kind = "UnexpectedResponse"
          /\ result[c].op = "exit_stop"
          /\ ~lastStart[c].started
          /\ config[c] = [address |-> "127.0.0.1", port |-> MaxPort]

\* C15: with two controllers of one manager and one config file, under every
\* interleaving each controller whose start() has returned holds the dict
\* denoted by the output of the response to its own request, which is what
\* the manager held for the host when it answered; reading a response
\* changes no other controller's config.
C15_EachAdoptsOwnResponse ==
    /\ [](\A c \in Controllers :
            result[c] = Returned("start")
            => /\ trace[c][2].ev = "response"
               /\ trace[c][2].arg.status_code = OK
               /\ trace[c][2].arg = lastStart[c]
               /\ Decodes(trace[c][2].arg.output, config[c]))
    /\ [][\A c \in Controllers :
            /\ (req[c].action = "start" /\ res'[c].status_code = OK)
                 => /\ hostRunning'
                    /\ res'[c].output = hostOutput'
                    /\ res'[c].started = ~hostRunning
                    /\ \A d \in Controllers \ {c} : res'[d] = res[d]
            /\ (pc[c] = "start_wait" /\ pc'[c] /= "start_wait")
                 => /\ res[c].status_code = OK
                         => Decodes(res[c].output, config'[c])
                    /\ \A d \in Controllers \ {c} : config'[d] = config[d]]_vars

\* both requests were in flight together: the manager spawned the host for
\* host1, then reused it for host2, whose start() returned first with the
\* reported config while host1 has not yet read its response
C15_Witness ==
    /\ pc["host1"] = "start_wait"
    /\ res["host1"].status_code = OK
    /\ res["host1"].started
    /\ config["host1"] = ManagerConfig
    /\ result["host2"] = Returned("start")
    /\ ~trace["host2"][2].arg.started
    /\ trace["host2"][2].arg.output = res["host1"].output
    /\ Decodes(res["host1"].output, config["host2"])

\* stop() without timeout was acknowledged, slept and returned, and the
\* host is still running
StaleAfterStop(c) ==
    /\ call[c].op = "stop"
    /\ ~Truthy(call[c].timeout)
    /\ StopAcked(c)
    /\ result[c] = Returned("stop")
    /\ hostRunning

\* C16: the wait of a stop() without timeout is one sleep that ends whether
\* or not the host has terminated, so stop() can have returned while the
\* host runs on (its termination still pending at the manager); a stop() or
\* restart() that follows then finds is_running() true and sends a stop
\* request, and a start() that follows is told the host was not started.
C16_StopReturnsBeforeTermination ==
    \A c \in Solo :
        /\ pc[c] = "stop_sleep" => ENABLED Stop_Wake(c)
        /\ StaleAfterStop(c)
             => /\ pendingStop
                /\ is_running(c)
                /\ phase = "running"
                     => ENABLED (Stop_Enter(c, None) /\ req'[c].action = "stop")
        /\ (pc[c] = "start_wait" /\ req[c].action = "start" /\ hostRunning)
             => ENABLED (Manager_Start(c) /\ res'[c].status_code = OK
                            /\ ~res'[c].started)

\* the sleep is over and stop() has returned, the host has not terminated
C16_Witness ==
    \E c \in Solo :
        /\ StaleAfterStop(c)
        /\ Evs(trace[c]) = <<"request", "response", "sleep", "return">>
        /\ pendingStop
        /\ phase = "running"

\* the events of kind e in a trace
EventsOf(tr, e) == {i \in DOMAIN tr : tr[i].ev = e}

\* C17: the exit registry grows only when a start() reads a 200 response,
\* by one hook of that controller, registered after the config was adopted;
\* it shrinks only when the exit phase runs a hook, never in stop() or
\* restart(); a start() that raised registered nothing, and a controller
\* that never read a 200 response has no hook and gets no exit-time stop.
C17_HookOnlyAfterSuccessfulStart ==
    /\ [][hooks' /= hooks
            => \/ /\ phase = "exiting"
                  /\ hooks' = SubSeq(hooks, 1, Len(hooks) - 1)
               \/ \E c \in Controllers :
                     /\ pc[c] = "start_wait"
                     /\ res[c].status_code = OK
                     /\ Len(hooks') = Len(hooks) + 1
                     /\ SubSeq(hooks', 1, Len(hooks)) = hooks
                     /\ hooks'[Len(hooks')].host = c
                     /\ hooks'[Len(hooks')].timeout = ON_EXIT_MANAGED_HOSTS_STOP_TIMEOUT
                     /\ config'[c] = json_loads(res[c].output)]_vars
    /\ [](\A c \in Controllers :
            /\ \A i \in EventsOf(trace[c], "register") :
                  /\ trace[c][i - 1].ev \in {"config", "print"}
                  /\ \E j \in EventsOf(trace[c], "config") :
                        /\ j < i
                        /\ trace[c][j - 1].ev = "response"
                        /\ trace[c][j - 1].arg.status_code = OK
            /\ StartRaised(c) => EventsOf(trace[c], "register") = {}
            /\ lastStart[c].status_code = 0
                 => /\ HooksOf(c) = {}
                    /\ ExitCalls(c) = {})

\* both start() calls of the controller were refused; the process exited
\* without running any hook
C17_Witness ==
    /\ phase = "exited"
    /\ exitLog = <<>>
    /\ \E c \in Controllers :
          /\ starts[c] = 2
          /\ StartRaised(c)
          /\ lastStart[c].status_code = 0

\* the "Started" notifications in a trace
StartedNotices(tr) ==
    {i \in EventsOf(tr, "print") : tr[i].arg[1] = "Started"}

\* C18: a start() (also the one of restart()) prints its notification
\* exactly when the response has status 200, says the host was started and
\* the verbosity is at least PROCESS_START; stop() never prints it.
C18_StartNoticeIffStarted ==
    \A c \in Controllers :
        /\ \A i \in Requests(trace[c], "start") :
              Len(trace[c]) > i
              => LET r == trace[c][i + 1].arg
                 IN  /\ Cardinality(StartedNotices(trace[c])) <= 1
                     /\ StartedNotices(trace[c]) /= {}
                          <=> /\ r.status_code = OK
                              /\ r.started
                              /\ VERBOSITY >= PROCESS_START
                     /\ \A k \in StartedNotices(trace[c]) :
                           /\ k > i + 1
                           /\ trace[c][k].arg[2] = GetName(c)
        /\ (\A i \in Requests(trace[c], "start") : Len(trace[c]) = i)
             => StartedNotices(trace[c]) = {}

\* at the highest verbosity the manager reused the running host and start()
\* returned without a notification
C18_Witness ==
    \E c \in Controllers :
        /\ VERBOSITY = PROCESS_STOP
        /\ result[c] = Returned("start")
        /\ ~trace[c][2].arg.started
        /\ trace[c][2].arg.status_code = OK
        /\ Evs(trace[c]) = <<"request", "response", "config", "register", "return">>

====
